---- MODULE Spec2Model ----
(***************************************************************************)
(* NotionService (openhands/integrations/notion/notion_service.py): the    *)
(* schema-adaptive query/update layer over the Notion HTTP API.            *)
(*                                                                         *)
(* One service instance runs one operation at a time.  Every network call  *)
(* of an operation is one step: the request is appended to `requests`, the *)
(* source's answer to `replies`, and the code that follows the call runs   *)
(* up to the next network call or to the end of the operation.             *)
(*                                                                         *)
(* The source is a function from requests to responses that is revealed    *)
(* lazily: `source` holds the answers given so far, and a request seen     *)
(* before is answered as before (an unchanged source).  A fresh call       *)
(* forgets them (the source may have changed in between).                  *)
(***************************************************************************)
EXTENDS Integers, Sequences, FiniteSets, TLC

VARIABLES
    service,    \* the NotionService fields set by __init__
    source,     \* the answers the source has given: {[request, response]}
    pc,         \* where the running operation is
    call,       \* the running operation and its arguments
    locals,     \* its local variables (db_id, query_body, update_payload)
    requests,   \* the requests it sent through self._client, in order
    replies,    \* the responses it got, in order
    outcome,    \* how it ended: a return value or a raised exception
    prev        \* the list_bugs call that ran just before on the same source

vars == <<service, source, pc, call, locals, requests, replies, outcome, prev>>

(***************************************************************************)
(* Bounds of the model.                                                    *)
(***************************************************************************)
\* the longest result page the source answers with
MaxRows == 2
\* the most properties a database schema declares
MaxProps == 3

(***************************************************************************)
(* Python values.                                                          *)
(***************************************************************************)
\* None where a str | None is expected
None == "None"
\* None where a dict | None is expected
NoneDict == [none |-> TRUE]
\* truthiness of a str | None
Truthy(s) == s # None /\ s # ""
\* a or b: b counts only when a is falsy; an AttributeError raised in a, or
\* in b when a is falsy, is the value of the whole (it is truthy here)
Or(a, b) == IF Truthy(a) THEN a ELSE b
\* min(a, b)
Min(a, b) == IF a <= b THEN a ELSE b
Max(a, b) == IF a >= b THEN a ELSE b
\* d.get(key, default) of a dict with string keys, a record here
DictGet(d, key, default) == IF key \in DOMAIN d THEN d[key] ELSE default
\* an ordered dict is the sequence of its items [name, value], names distinct
EmptyDict == <<>>
HasKey(d, key) == \E i \in 1..Len(d) : d[i].name = key
\* d.get(key, {}) of an ordered dict whose values are dicts
ItemGet(d, key) ==
    IF HasKey(d, key)
    THEN d[CHOOSE i \in 1..Len(d) : d[i].name = key].value
    ELSE [x \in {} |-> x]
\* s[:n] of a list
Slice(s, n) ==
    IF n >= 0 THEN SubSeq(s, 1, Min(n, Len(s)))
    ELSE SubSeq(s, 1, Max(Len(s) + n, 0))
\* what stands for an AttributeError raised inside an expression: calling
\* .get on None (a null property, a null run)
AttributeError == "<AttributeError>"
RECURSIVE ConcatPlainText(_)
ConcatPlainText(items) ==
    IF items = <<>> THEN ""
    ELSE DictGet(Head(items), "plain_text", "") \o ConcatPlainText(Tail(items))
\* ''.join(item.get('plain_text', '') for item in items)
JoinPlainText(items) ==
    IF \E i \in 1..Len(items) : items[i] = NoneDict THEN AttributeError
    ELSE ConcatPlainText(items)
\* mutant: the names are compared as they are declared
LowerIdentity(s) == s
\* str.lower() on the property names that occur
Lower(s) ==
    CASE s \in {"Status", "STATUS", "status"} -> "status"
      [] s \in {"State", "state"} -> "state"
      [] s \in {"Stage", "stage"} -> "stage"
      [] s \in {"Name", "name"} -> "name"
      [] s \in {"Priority", "priority"} -> "priority"
      [] s \in {"Description", "description"} -> "description"

(***************************************************************************)
(* Property extractors.                                                    *)
(***************************************************************************)
\* a null where a list is expected (title, rich_text) is the empty list here:
\* the code only tests its truth value
RECURSIVE _extract_title(_)
_extract_title(properties) ==
    IF properties = <<>> THEN "Untitled"
    ELSE LET prop_value == Head(properties).value
             title_items == DictGet(prop_value, "title", <<>>)
         IN IF prop_value = NoneDict THEN AttributeError
            ELSE IF DictGet(prop_value, "type", None) = "title" /\ title_items # <<>>
            THEN JoinPlainText(title_items)
            ELSE _extract_title(Tail(properties))

_extract_rich_text(properties, property_name) ==
    LET prop == ItemGet(properties, property_name)
        rich_text == DictGet(prop, "rich_text", <<>>)
    IN IF prop = NoneDict THEN AttributeError
       ELSE IF DictGet(prop, "type", None) = "rich_text" /\ rich_text # <<>>
       THEN JoinPlainText(rich_text)
       ELSE None

_extract_select(properties, property_name) ==
    LET prop == ItemGet(properties, property_name)
        select == DictGet(prop, "select", NoneDict)
    IN IF prop = NoneDict THEN AttributeError
       ELSE IF DictGet(prop, "type", None) = "select" /\ select # NoneDict
       THEN DictGet(select, "name", None)
       ELSE None

_extract_status(properties, property_name) ==
    LET prop == ItemGet(properties, property_name)
        status == DictGet(prop, "status", NoneDict)
    IN IF prop = NoneDict THEN AttributeError
       ELSE IF DictGet(prop, "type", None) = "status" /\ status # NoneDict
       THEN DictGet(status, "name", None)
       ELSE None

\* mutant: the bug keeps the property map without the Priority it has read
NotionBugMinusPriority(page) ==
    LET properties == DictGet(page, "properties", EmptyDict)
        title == _extract_title(properties)
        description == Or(_extract_rich_text(properties, "Description"),
                          _extract_rich_text(properties, "description"))
        status == Or(_extract_status(properties, "Status"),
                  Or(_extract_status(properties, "status"),
                  Or(_extract_select(properties, "Status"),
                     _extract_select(properties, "status"))))
        priority == Or(_extract_select(properties, "Priority"),
                       _extract_select(properties, "priority"))
    IN IF AttributeError \in {title, description, status, priority}
       THEN [raised |-> "AttributeError"]
       ELSE [page_id |-> page.id, title |-> title, description |-> description,
             status |-> status, priority |-> priority,
             url |-> DictGet(page, "url", ""),
             properties |-> SelectSeq(properties, LAMBDA e : e.name # "Priority")]
\* the NotionBug built from one page envelope (list_bugs and get_bug alike);
\* NotionBugRaised when an extractor raised
NotionBugRaised == [raised |-> "AttributeError"]
NotionBug(page) ==
    LET properties == DictGet(page, "properties", EmptyDict)
        title == _extract_title(properties)
        description == Or(_extract_rich_text(properties, "Description"),
                          _extract_rich_text(properties, "description"))
        status == Or(_extract_status(properties, "Status"),
                  Or(_extract_status(properties, "status"),
                  Or(_extract_select(properties, "Status"),
                     _extract_select(properties, "status"))))
        priority == Or(_extract_select(properties, "Priority"),
                       _extract_select(properties, "priority"))
    IN IF AttributeError \in {title, description, status, priority}
       THEN NotionBugRaised
       ELSE [page_id |-> page.id,
             title |-> title,
             description |-> description,
             status |-> status,
             priority |-> priority,
             url |-> DictGet(page, "url", ""),
             properties |-> properties]

(***************************************************************************)
(* Schema resolver and filter builder.                                     *)
(***************************************************************************)
\* {name: prop.get('type') for name, prop in properties.items()}
SchemaOf(properties) ==
    [i \in 1..Len(properties) |->
        [name |-> properties[i].name,
         value |-> DictGet(properties[i].value, "type", None)]]

\* the entries of the schema whose lowered name is status, state or stage
StatusProps(schema) ==
    SelectSeq(schema, LAMBDA e : Lower(e.name) \in {"status", "state", "stage"})

\* one condition for a (prop_name, prop_type) pair, <<>> for an unsupported type
Conditions(prop_name, prop_type, status_value) ==
    CASE prop_type = "status" ->
            <<[property |-> prop_name, status |-> [equals |-> status_value]]>>
      [] prop_type = "select" ->
            <<[property |-> prop_name, select |-> [equals |-> status_value]]>>
      [] prop_type = "multi_select" ->
            <<[property |-> prop_name, multi_select |-> [contains |-> status_value]]>>
      [] OTHER -> <<>>

RECURSIVE AllConditions(_, _)
AllConditions(status_props, status_value) ==
    IF status_props = <<>> THEN <<>>
    ELSE Conditions(Head(status_props).name, Head(status_props).value, status_value)
         \o AllConditions(Tail(status_props), status_value)

\* mutant: a single condition is wrapped in an OR node like several
_build_status_filter_always_or(schema, status_value) ==
    LET conditions == AllConditions(StatusProps(schema), status_value)
    IN IF conditions = <<>> THEN NoneDict ELSE [or |-> conditions]
_build_status_filter(schema, status_value) ==
    LET status_props == StatusProps(schema)
        conditions == AllConditions(status_props, status_value)
    IN IF status_props = <<>> THEN NoneDict
       ELSE IF conditions = <<>> THEN NoneDict
       ELSE IF Len(conditions) = 1 THEN conditions[1]
       ELSE [or |-> conditions]

(***************************************************************************)
(* The inputs the callers pass.                                            *)
(***************************************************************************)
\* __init__(api_key, database_id=None)
Services == [api_key : {"secret_k"}, database_id : {None, "", "db-default"}]
\* list_bugs(database_id=None, ...)
DatabaseIdArgs == {None, "", "db-arg"}
\* list_bugs(status_filter=None, ...)
StatusFilters == {None, "", "Done"}
\* list_bugs(limit=100): any int, the route passes it through unvalidated
Limits == {-1, 0, 1, 101}
\* update_bug_status(page_id, status, status_property_name='Status')
PageIds == {"page-1"}
StatusValues == {"Done"}
StatusPropertyNames == {"Status", "State"}

(***************************************************************************)
(* The transport (httpx.Client) and the source behind it.                  *)
(***************************************************************************)
\* self._client.get(path) / .post(path, json=json) / .patch(path, json=json)
GetRequest(path) == [method |-> "GET", path |-> path]
PostRequest(path, json) == [method |-> "POST", path |-> path, json |-> json]
PatchRequest(path, json) == [method |-> "PATCH", path |-> path, json |-> json]

\* a 2xx response: raise_for_status() passes and response.json() is data
OkResponse(data) == [kind |-> "ok", status_code |-> 200, data |-> data]
\* a non-2xx response: raise_for_status() raises httpx.HTTPStatusError; message
\* is the 'message' of the error body, "" when the body holds none
HttpError(status_code, message) ==
    [kind |-> "http", status_code |-> status_code, message |-> message]
\* no response at all (timeout, connection failure): the client call itself
\* raises an httpx.TransportError, which is not an httpx.HTTPStatusError
TransportFailure == [kind |-> "transport"]

HttpErrors ==
    {HttpError(400, "validation_error"), HttpError(404, "object_not_found"),
     HttpError(500, "")}

\* the page envelopes of the source database
Page(i) ==
    [id |-> "page-" \o ToString(i),
     url |-> "https://www.notion.so/" \o ToString(i),
     properties |->
        IF i % 2 = 1
        THEN <<[name |-> "Name",
                value |-> [type |-> "title",
                           title |-> <<[plain_text |-> "Fix "], [plain_text |-> "bug"]>>]],
               [name |-> "Status",
                value |-> [type |-> "status", status |-> [name |-> "Done"]]],
               [name |-> "Priority",
                value |-> [type |-> "select", select |-> [name |-> "High"]]]>>
        ELSE <<[name |-> "Name", value |-> [type |-> "title", title |-> <<>>]],
               [name |-> "status",
                value |-> [type |-> "select", select |-> [name |-> "Todo"]]],
               [name |-> "Priority", value |-> [type |-> "select", select |-> NoneDict]],
               [name |-> "Description",
                value |-> [type |-> "rich_text",
                           rich_text |-> <<[plain_text |-> "steps"]>>]]>>]

DbRows == [i \in 1..MaxRows |-> Page(i)]
Reversed(s) == [i \in 1..Len(s) |-> s[Len(s) + 1 - i]]
\* the result pages the source answers a query with, whatever page_size asked
RowSeqs == {SubSeq(DbRows, 1, n) : n \in 0..MaxRows} \cup {Reversed(DbRows)}

\* the 'properties' of a database object (GET /databases/{id})
DatabaseProperties ==
    {<<>>,
     <<[name |-> "Name", value |-> [type |-> "title"]],
       [name |-> "Status", value |-> [type |-> "status"]]>>,
     <<[name |-> "Status", value |-> [type |-> "status"]],
       [name |-> "State", value |-> [type |-> "select"]]>>,
     <<[name |-> "Name", value |-> [type |-> "title"]],
       [name |-> "Stage", value |-> [type |-> "rich_text"]]>>,
     <<[name |-> "Name", value |-> [type |-> "title"]]>>}

SchemaResponses ==
    {OkResponse([properties |-> p]) : p \in DatabaseProperties}
    \cup HttpErrors \cup {TransportFailure}
QueryResponses ==
    {OkResponse([results |-> r]) : r \in RowSeqs} \cup HttpErrors \cup {TransportFailure}
PatchResponses ==
    {OkResponse([object |-> "page"])} \cup HttpErrors \cup {TransportFailure}

\* what the source answers to req: as before if it was asked before
Answers(req, all) ==
    LET known == {m \in source : m.request = req}
    IN IF known # {} THEN {m.response : m \in known} ELSE all
Learn(req, resp) == source \cup {[request |-> req, response |-> resp]}

(***************************************************************************)
(* Outcomes of an operation.                                               *)
(***************************************************************************)
Pending == [kind |-> "pending"]
Return(value) == [kind |-> "return", value |-> value]
Raise(exc) == [kind |-> "raise", exc |-> exc]
\* an exception of the client call that no except clause of the service catches
Propagated == Raise([type |-> "TransportError"])

NoCall == [op |-> "none"]
NoPrev == [op |-> "none"]

(***************************************************************************)
(* list_bugs                                                               *)
(***************************************************************************)
\* the source's maximum page size: min(limit, 100)
MAX_PAGE_SIZE == 100
\* limit: int = 100
DEFAULT_LIMIT == 100

\* db_id = database_id or self.database_id
ResolveDbId(database_id, default) == Or(database_id, default)
\* mutant: only None counts as missing (if db_id is None)
DbIdIsNone(db_id) == db_id = None
\* if not db_id: raise ValueError
DbIdMissing(db_id) == ~Truthy(db_id)
\* query_body = {'page_size': min(limit, 100)}
QueryBody(limit) == [page_size |-> Min(limit, MAX_PAGE_SIZE)]
\* query_body['filter'] = filter_condition
\* mutant: the filter that was built is not attached
WithFilterDropped(query_body, filter_condition) == query_body
WithFilter(query_body, filter_condition) == ("filter" :> filter_condition) @@ query_body
\* mutant: retries on any 400, filter or not
ShouldRetryAny400(status_code, query_body) == status_code = 400
\* mutant: the query body lives in a field of the service, so that the retry
\* of one call is decided on the body another call stored last
ShouldRetrySharedBody(status_code, query_body) ==
    /\ status_code = 400
    /\ IF "pc" \in DOMAIN prev /\ "query_body" \in DOMAIN prev.locals
       THEN "filter" \in DOMAIN prev.locals.query_body
       ELSE "filter" \in DOMAIN query_body
\* e.response.status_code == 400 and 'filter' in query_body
ShouldRetry(status_code, query_body) ==
    status_code = 400 /\ "filter" \in DOMAIN query_body
\* mutant: the retry asks for limit rows, uncapped
RetryBodyUncapped(limit) == [page_size |-> limit]
\* query_body_no_filter = {'page_size': min(limit, 100)}
RetryBody(limit) == [page_size |-> Min(limit, MAX_PAGE_SIZE)]
\* mutant: the bugs are collected last row first
ListResultReversed(data, limit) ==
    LET results == DictGet(data, "results", <<>>)
        bugs == [i \in 1..Len(results) |-> NotionBug(results[i])]
    IN Slice(Reversed(bugs), limit)
\* the bugs of data.get('results', []), then bugs[:limit]
ListResult(data, limit) ==
    LET results == DictGet(data, "results", <<>>)
        bugs == [i \in 1..Len(results) |-> NotionBug(results[i])]
    IN Slice(bugs, limit)
\* list_bugs from data on: the truncated list, or the AttributeError of the
\* first page whose extraction raised
ListOutcome(data, limit) ==
    LET results == DictGet(data, "results", <<>>)
    IN IF \E i \in 1..Len(results) : NotionBug(results[i]) = NotionBugRaised
       THEN Raise([type |-> "AttributeError"])
       ELSE Return(ListResult(data, limit))
\* RuntimeError(f'Failed to query Notion database: {e}: {error_detail}')
QueryError(resp) ==
    Raise([type |-> "RuntimeError", msg |-> "Failed to query Notion database",
           status_code |-> resp.status_code, detail |-> resp.message])
\* mutant: a failed retry is swallowed into an empty list
RetryErrorSwallowed(resp) == [kind |-> "return", value |-> <<>>]
\* RuntimeError(f'Failed to query Notion database: {retry_e}')
RetryError(resp) ==
    Raise([type |-> "RuntimeError", msg |-> "Failed to query Notion database",
           status_code |-> resp.status_code])

\* mutant: the schema is read from the service's default database
SchemaPathOfDefault(db_id) == <<"databases", service.database_id>>
SchemaPath(db_id) == <<"databases", db_id>>
QueryPath(db_id) == <<"databases", db_id, "query">>

\* _get_database_schema from its response on: the mapping, {} on HTTPStatusError
_get_database_schema(resp) ==
    IF resp.kind = "ok"
    THEN SchemaOf(DictGet(resp.data, "properties", EmptyDict))
    ELSE EmptyDict

\* list_bugs of the instance self up to its first network call
ListBugsEntryOn(self, database_id, status_filter, limit) ==
    LET db_id == ResolveDbId(database_id, self.database_id)
        query_body == QueryBody(limit)
    IN /\ call' = [op |-> "list_bugs", database_id |-> database_id,
                   status_filter |-> status_filter, limit |-> limit]
       /\ replies' = <<>>
       /\ IF DbIdMissing(db_id)
          THEN /\ locals' = [db_id |-> db_id]
               /\ requests' = <<>>
               /\ outcome' = Raise([type |-> "ValueError",
                                    msg |-> "Database ID is required"])
               /\ pc' = "done"
          ELSE /\ locals' = [db_id |-> db_id, query_body |-> query_body]
               /\ outcome' = Pending
               /\ IF Truthy(status_filter)
                  THEN /\ requests' = <<GetRequest(SchemaPath(db_id))>>
                       /\ pc' = "schema"
                  ELSE /\ requests' = <<PostRequest(QueryPath(db_id), query_body)>>
                       /\ pc' = "query"

\* list_bugs of the service up to its first network call
ListBugsEntry(database_id, status_filter, limit) ==
    ListBugsEntryOn(service, database_id, status_filter, limit)

\* a caller lists bugs; what the source answered to earlier calls is forgotten
ListBugs ==
    \E database_id \in DatabaseIdArgs, status_filter \in StatusFilters, limit \in Limits :
        /\ pc \in {"idle", "done"}
        /\ ListBugsEntry(database_id, status_filter, limit)
        /\ source' = {}
        /\ prev' = NoPrev
        /\ UNCHANGED service

\* the caller lists again, same database id and limit, against the unchanged source
ListBugsAgain ==
    \E status_filter \in StatusFilters :
        /\ pc = "done"
        /\ call.op = "list_bugs"
        /\ ListBugsEntry(call.database_id, status_filter, call.limit)
        /\ prev' = [op |-> "list_bugs", call |-> call, locals |-> locals,
                    requests |-> requests, replies |-> replies, outcome |-> outcome]
        /\ UNCHANGED <<service, source>>

\* the answer to GET /databases/{db_id}; list_bugs goes on to its query
SchemaResponse ==
    /\ pc = "schema"
    /\ \E resp \in Answers(requests[Len(requests)], SchemaResponses) :
        /\ source' = Learn(requests[Len(requests)], resp)
        /\ replies' = Append(replies, resp)
        /\ IF resp.kind = "transport"
           THEN /\ outcome' = Propagated
                /\ pc' = "done"
                /\ UNCHANGED <<locals, requests>>
           ELSE LET schema == _get_database_schema(resp)
                    filter_condition ==
                        IF schema # EmptyDict
                        THEN _build_status_filter(schema, call.status_filter)
                        ELSE NoneDict
                    query_body ==
                        IF filter_condition # NoneDict
                        THEN WithFilter(locals.query_body, filter_condition)
                        ELSE locals.query_body
                IN /\ locals' = [locals EXCEPT !.query_body = query_body]
                   /\ requests' = Append(requests,
                                         PostRequest(QueryPath(locals.db_id), query_body))
                   /\ outcome' = Pending
                   /\ pc' = "query"
    /\ UNCHANGED <<service, call, prev>>

\* the answer to the first POST /databases/{db_id}/query
QueryResponse ==
    /\ pc = "query"
    /\ \E resp \in Answers(requests[Len(requests)], QueryResponses) :
        /\ source' = Learn(requests[Len(requests)], resp)
        /\ replies' = Append(replies, resp)
        /\ CASE resp.kind = "ok" ->
                    /\ outcome' = ListOutcome(resp.data, call.limit)
                    /\ pc' = "done"
                    /\ UNCHANGED requests
             [] resp.kind = "http" /\ ShouldRetry(resp.status_code, locals.query_body) ->
                    /\ requests' = Append(requests,
                                          PostRequest(QueryPath(locals.db_id),
                                                      RetryBody(call.limit)))
                    /\ outcome' = Pending
                    /\ pc' = "retry"
             [] resp.kind = "http" /\ ~ShouldRetry(resp.status_code, locals.query_body) ->
                    /\ outcome' = QueryError(resp)
                    /\ pc' = "done"
                    /\ UNCHANGED requests
             [] resp.kind = "transport" ->
                    /\ outcome' = Propagated
                    /\ pc' = "done"
                    /\ UNCHANGED requests
    /\ UNCHANGED <<service, call, locals, prev>>

\* the answer to the retry without filter
RetryResponse ==
    /\ pc = "retry"
    /\ \E resp \in Answers(requests[Len(requests)], QueryResponses) :
        /\ source' = Learn(requests[Len(requests)], resp)
        /\ replies' = Append(replies, resp)
        /\ outcome' = CASE resp.kind = "ok" -> ListOutcome(resp.data, call.limit)
                        [] resp.kind = "http" -> RetryError(resp)
                        [] resp.kind = "transport" -> Propagated
        /\ pc' = "done"
    /\ UNCHANGED <<service, call, locals, requests, prev>>

(***************************************************************************)
(* update_bug_status                                                       *)
(***************************************************************************)
\* {'properties': {status_property_name: {'status': {'name': status}}}}
StatusPayload(status_property_name, status) ==
    [properties |-> (status_property_name :> [status |-> [name |-> status]])]
\* {'properties': {status_property_name: {'select': {'name': status}}}}
SelectPayload(status_property_name, status) ==
    [properties |-> (status_property_name :> [select |-> [name |-> status]])]
\* mutant: falls back on any exception of the first PATCH
ShouldFallBackOnAny(resp) == TRUE
\* the first PATCH failed with an HTTPStatusError: try the select shape
ShouldFallBack(resp) == resp.kind = "http"
\* RuntimeError(f'Failed to update Notion page status: {e}')
UpdateError(resp) ==
    Raise([type |-> "RuntimeError", msg |-> "Failed to update Notion page status",
           status_code |-> resp.status_code])

PagePath(page_id) == <<"pages", page_id>>

\* update_bug_status up to its first network call
UpdateBugStatusEntry(page_id, status, status_property_name) ==
    LET update_payload == StatusPayload(status_property_name, status)
    IN /\ call' = [op |-> "update_bug_status", page_id |-> page_id,
                   status |-> status,
                   status_property_name |-> status_property_name]
       /\ locals' = [update_payload |-> update_payload]
       /\ requests' = <<PatchRequest(PagePath(page_id), update_payload)>>
       /\ replies' = <<>>
       /\ outcome' = Pending
       /\ pc' = "patch"

UpdateBugStatus ==
    \E page_id \in PageIds, status \in StatusValues,
       status_property_name \in StatusPropertyNames :
        /\ pc \in {"idle", "done"}
        /\ UpdateBugStatusEntry(page_id, status, status_property_name)
        /\ source' = {}
        /\ prev' = NoPrev
        /\ UNCHANGED service

\* the answer to the status-shaped PATCH
PatchResponse ==
    /\ pc = "patch"
    /\ \E resp \in Answers(requests[Len(requests)], PatchResponses) :
        /\ source' = Learn(requests[Len(requests)], resp)
        /\ replies' = Append(replies, resp)
        /\ CASE resp.kind = "ok" ->
                    /\ outcome' = Return(TRUE)
                    /\ pc' = "done"
                    /\ UNCHANGED <<locals, requests>>
             [] resp.kind # "ok" /\ ShouldFallBack(resp) ->
                    LET update_payload ==
                            SelectPayload(call.status_property_name, call.status)
                    IN /\ locals' = [update_payload |-> update_payload]
                       /\ requests' = Append(requests,
                                             PatchRequest(PagePath(call.page_id),
                                                          update_payload))
                       /\ outcome' = Pending
                       /\ pc' = "fallback"
             [] resp.kind # "ok" /\ ~ShouldFallBack(resp) ->
                    /\ outcome' = Propagated
                    /\ pc' = "done"
                    /\ UNCHANGED <<locals, requests>>
    /\ UNCHANGED <<service, call, prev>>

\* mutant: a failed fallback is reported as False instead of raised
FallbackOutcomeFalse(resp) ==
    IF resp.kind = "ok" THEN [kind |-> "return", value |-> TRUE]
    ELSE [kind |-> "return", value |-> FALSE]
\* what update_bug_status ends with when the select-shaped PATCH got resp
FallbackOutcome(resp) ==
    CASE resp.kind = "ok" -> Return(TRUE)
      [] resp.kind = "http" -> UpdateError(resp)
      [] resp.kind = "transport" -> Propagated

\* the answer to the select-shaped PATCH
FallbackResponse ==
    /\ pc = "fallback"
    /\ \E resp \in Answers(requests[Len(requests)], PatchResponses) :
        /\ source' = Learn(requests[Len(requests)], resp)
        /\ replies' = Append(replies, resp)
        /\ outcome' = FallbackOutcome(resp)
        /\ pc' = "done"
    /\ UNCHANGED <<service, call, locals, requests, prev>>

(***************************************************************************)
(* add_comment                                                             *)
(***************************************************************************)
Comments == {"fixed in main"}
\* {'parent': {'page_id': page_id}, 'rich_text': [{'type': 'text', ...}]}
CommentPayload(page_id, comment) ==
    [parent |-> [page_id |-> page_id],
     rich_text |-> <<[type |-> "text", text |-> [content |-> comment]]>>]
CommentsPath == <<"comments">>
CommentResponses ==
    {OkResponse([object |-> "comment"])} \cup HttpErrors \cup {TransportFailure}

\* mutant: a rejected comment is logged and reported as added
CommentOutcomeSwallowed(resp) ==
    IF resp.kind = "transport" THEN [kind |-> "raise", exc |-> [type |-> "TransportError"]]
    ELSE [kind |-> "return", value |-> TRUE]
\* what add_comment ends with when POST /comments got resp
CommentOutcome(resp) ==
    CASE resp.kind = "ok" -> Return(TRUE)
      [] resp.kind = "http" ->
            Raise([type |-> "RuntimeError", msg |-> "Failed to add comment to Notion page",
                   status_code |-> resp.status_code])
      [] resp.kind = "transport" -> Propagated

\* add_comment up to its POST
\* add_comment up to its network call
AddCommentEntry(page_id, comment) ==
    /\ call' = [op |-> "add_comment", page_id |-> page_id, comment |-> comment]
    /\ locals' = [comment_payload |-> CommentPayload(page_id, comment)]
    /\ requests' = <<PostRequest(CommentsPath, CommentPayload(page_id, comment))>>
    /\ replies' = <<>>
    /\ outcome' = Pending
    /\ pc' = "comment"

AddComment ==
    \E page_id \in PageIds, comment \in Comments :
        /\ pc \in {"idle", "done"}
        /\ AddCommentEntry(page_id, comment)
        /\ source' = {}
        /\ prev' = NoPrev
        /\ UNCHANGED service

\* the answer to POST /comments
CommentResponse ==
    /\ pc = "comment"
    /\ \E resp \in Answers(requests[Len(requests)], CommentResponses) :
        /\ source' = Learn(requests[Len(requests)], resp)
        /\ replies' = Append(replies, resp)
        /\ outcome' = CommentOutcome(resp)
        /\ pc' = "done"
    /\ UNCHANGED <<service, call, locals, requests, prev>>

(***************************************************************************)
(* test_connection                                                         *)
(***************************************************************************)
UsersMePath == <<"users", "me">>
ProbeResponses ==
    {OkResponse([object |-> "user"])} \cup HttpErrors \cup {TransportFailure}
\* str(e) of the exception a client call raised
StrOfException(resp) ==
    IF resp.kind = "http" THEN "HTTP error '" \o ToString(resp.status_code) \o "'"
    ELSE "connection failed"
\* f'{e.response.status_code}: {e.response.text[:200] if e.response.text else str(e)}'
ProbeErrorMsg(resp) ==
    ToString(resp.status_code) \o ": "
        \o (IF resp.message # "" THEN resp.message ELSE StrOfException(resp))

\* mutant: without the except Exception clause
ProbeOutcomeHttpOnly(resp) ==
    CASE resp.kind = "ok" -> [kind |-> "return", value |-> <<TRUE, None>>]
      [] resp.kind = "http" -> [kind |-> "return", value |-> <<FALSE, ProbeErrorMsg(resp)>>]
      [] resp.kind = "transport" -> [kind |-> "raise", exc |-> [type |-> "TransportError"]]
\* what test_connection ends with when GET /users/me got resp
ProbeOutcome(resp) ==
    CASE resp.kind = "ok" -> Return(<<TRUE, None>>)
      [] resp.kind = "http" -> Return(<<FALSE, ProbeErrorMsg(resp)>>)
      [] resp.kind = "transport" -> Return(<<FALSE, StrOfException(resp)>>)

\* test_connection up to its GET
\* test_connection up to its network call
TestConnectionEntry ==
    /\ call' = [op |-> "test_connection"]
    /\ locals' = NoneDict
    /\ requests' = <<GetRequest(UsersMePath)>>
    /\ replies' = <<>>
    /\ outcome' = Pending
    /\ pc' = "probe"

TestConnection ==
    /\ pc \in {"idle", "done"}
    /\ TestConnectionEntry
    /\ source' = {}
    /\ prev' = NoPrev
    /\ UNCHANGED service

\* the answer to GET /users/me
ProbeResponse ==
    /\ pc = "probe"
    /\ \E resp \in Answers(requests[Len(requests)], ProbeResponses) :
        /\ source' = Learn(requests[Len(requests)], resp)
        /\ replies' = Append(replies, resp)
        /\ outcome' = ProbeOutcome(resp)
        /\ pc' = "done"
    /\ UNCHANGED <<service, call, locals, requests, prev>>

(***************************************************************************)
(* get_bug                                                                 *)
(***************************************************************************)
\* what GET /pages/{page_id} is answered with
PageResponses ==
    {OkResponse(Page(i)) : i \in 1..MaxRows} \cup HttpErrors \cup {TransportFailure}

\* mutant: the select shape of a name is tried right after its status shape
GetBugResultByName(page) ==
    LET properties == DictGet(page, "properties", EmptyDict)
        title == _extract_title(properties)
        description == Or(_extract_rich_text(properties, "Description"),
                          _extract_rich_text(properties, "description"))
        status == Or(_extract_status(properties, "Status"),
                  Or(_extract_select(properties, "Status"),
                  Or(_extract_status(properties, "status"),
                     _extract_select(properties, "status"))))
        priority == Or(_extract_select(properties, "Priority"),
                       _extract_select(properties, "priority"))
    IN IF AttributeError \in {title, description, status, priority}
       THEN NotionBugRaised
       ELSE [page_id |-> page.id, title |-> title, description |-> description,
             status |-> status, priority |-> priority,
             url |-> DictGet(page, "url", ""), properties |-> properties]
\* the NotionBug get_bug builds from the page it got; NotionBugRaised when an
\* extractor raised
GetBugResult(page) ==
    LET properties == DictGet(page, "properties", EmptyDict)
        title == _extract_title(properties)
        description == Or(_extract_rich_text(properties, "Description"),
                          _extract_rich_text(properties, "description"))
        status == Or(_extract_status(properties, "Status"),
                  Or(_extract_status(properties, "status"),
                  Or(_extract_select(properties, "Status"),
                     _extract_select(properties, "status"))))
        priority == Or(_extract_select(properties, "Priority"),
                       _extract_select(properties, "priority"))
    IN IF AttributeError \in {title, description, status, priority}
       THEN NotionBugRaised
       ELSE [page_id |-> page.id,
             title |-> title,
             description |-> description,
             status |-> status,
             priority |-> priority,
             url |-> DictGet(page, "url", ""),
             properties |-> properties]

\* get_bug from the page on: the bug, or the AttributeError of an extractor
AssembleOutcome(page) ==
    IF GetBugResult(page) = NotionBugRaised
    THEN Raise([type |-> "AttributeError"])
    ELSE Return(GetBugResult(page))

\* mutant: a page that cannot be read is reported as no bug
GetBugOutcomeSwallowed(resp) ==
    CASE resp.kind = "ok" -> AssembleOutcome(resp.data)
      [] resp.kind = "http" -> [kind |-> "return", value |-> NoneDict]
      [] resp.kind = "transport" -> [kind |-> "raise", exc |-> [type |-> "TransportError"]]
\* what get_bug ends with when GET /pages/{page_id} got resp
GetBugOutcome(resp) ==
    CASE resp.kind = "ok" -> AssembleOutcome(resp.data)
      [] resp.kind = "http" ->
            Raise([type |-> "RuntimeError", msg |-> "Failed to get Notion page",
                   status_code |-> resp.status_code])
      [] resp.kind = "transport" -> Propagated

\* get_bug up to its network call
GetBugEntry(page_id) ==
    /\ call' = [op |-> "get_bug", page_id |-> page_id]
    /\ locals' = NoneDict
    /\ requests' = <<GetRequest(PagePath(page_id))>>
    /\ replies' = <<>>
    /\ outcome' = Pending
    /\ pc' = "page"

GetBug ==
    \E page_id \in PageIds :
        /\ pc \in {"idle", "done"}
        /\ GetBugEntry(page_id)
        /\ source' = {}
        /\ prev' = NoPrev
        /\ UNCHANGED service

\* the answer to GET /pages/{page_id}
PageResponse ==
    /\ pc = "page"
    /\ \E resp \in Answers(requests[Len(requests)], PageResponses) :
        /\ source' = Learn(requests[Len(requests)], resp)
        /\ replies' = Append(replies, resp)
        /\ outcome' = GetBugOutcome(resp)
        /\ pc' = "done"
    /\ UNCHANGED <<service, call, locals, requests, prev>>

(***************************************************************************)
(* The specification.                                                      *)
(***************************************************************************)
Init ==
    /\ service \in Services
    /\ source = {}
    /\ pc = "idle"
    /\ call = NoCall
    /\ locals = NoneDict
    /\ requests = <<>>
    /\ replies = <<>>
    /\ outcome = Pending
    /\ prev = NoPrev

Next ==
    \/ ListBugs
    \/ ListBugsAgain
    \/ SchemaResponse
    \/ QueryResponse
    \/ RetryResponse
    \/ UpdateBugStatus
    \/ PatchResponse
    \/ FallbackResponse
    \/ AddComment
    \/ CommentResponse
    \/ TestConnection
    \/ ProbeResponse
    \/ GetBug
    \/ PageResponse

Spec == Init /\ [][Next]_vars

(***************************************************************************)
(* What the properties below speak about.                                  *)
(***************************************************************************)
ListCall == call.op = "list_bugs"
UpdateCall == call.op = "update_bug_status"
\* POST /databases/{id}/query
IsQuery(r) ==
    r.method = "POST" /\ Len(r.path) = 3 /\ r.path[1] = "databases" /\ r.path[3] = "query"
\* GET /databases/{id}
IsSchemaRead(r) == r.method = "GET" /\ Len(r.path) = 2 /\ r.path[1] = "databases"
QueryIndexes(reqs) == {i \in 1..Len(reqs) : IsQuery(reqs[i])}
FirstQueryIndex(reqs) ==
    CHOOSE i \in QueryIndexes(reqs) : \A j \in QueryIndexes(reqs) : i <= j
\* the first query of the call has been sent and answered
FirstQueryAnswered(reqs, reps) ==
    QueryIndexes(reqs) # {} /\ Len(reps) >= FirstQueryIndex(reqs)
FirstQuery(reqs) == reqs[FirstQueryIndex(reqs)]
FirstQueryReply(reqs, reps) == reps[FirstQueryIndex(reqs)]
\* the first query carried a filter and was answered with HTTP 400
FilterRejected(reqs, reps) ==
    /\ FirstQueryAnswered(reqs, reps)
    /\ "filter" \in DOMAIN FirstQuery(reqs).json
    /\ FirstQueryReply(reqs, reps).kind = "http"
    /\ FirstQueryReply(reqs, reps).status_code = 400
\* the last request sent has been answered
AllAnswered == Len(replies) = Len(requests)

(***************************************************************************)
(* C1  A list_bugs call whose first query carried a filter and was         *)
(* answered with HTTP 400 sends exactly one further query, to the same     *)
(* database, with the same page_size and without a 'filter' key; when that *)
(* second query succeeds the call returns normally, after 2 queries.       *)
(***************************************************************************)
C1_RetryOnceWithoutFilter ==
    (ListCall /\ FilterRejected(requests, replies)) =>
        LET i == FirstQueryIndex(requests)
        IN /\ Cardinality(QueryIndexes(requests)) = 2
           /\ Len(requests) = i + 1
           /\ IsQuery(requests[i + 1])
           /\ requests[i + 1].path = requests[i].path
           /\ requests[i + 1].json.page_size = requests[i].json.page_size
           /\ "filter" \notin DOMAIN requests[i + 1].json
           /\ (AllAnswered /\ replies[i + 1].kind = "ok") =>
                (pc = "done" /\ outcome.kind = "return")

C1_Witness ==
    /\ ListCall /\ pc = "done"
    /\ FilterRejected(requests, replies)
    /\ replies[Len(replies)].kind = "ok"
    /\ Cardinality(QueryIndexes(requests)) = 2
    /\ outcome.kind = "return"
    /\ Len(outcome.value) > 0

(***************************************************************************)
(* C2  A list_bugs call never sends more than 2 queries; when the retry    *)
(* without filter is answered with an HTTP error status (a 400 included)   *)
(* the call ends with a RuntimeError and nothing more is sent.             *)
(***************************************************************************)
C2_AtMostOneRetry ==
    ListCall =>
        /\ Cardinality(QueryIndexes(requests)) <= 2
        /\ (Cardinality(QueryIndexes(requests)) = 2 /\ AllAnswered
            /\ replies[Len(replies)].kind = "http") =>
                /\ pc = "done"
                /\ outcome.kind = "raise"
                /\ outcome.exc.type = "RuntimeError"
                /\ outcome.exc.status_code = replies[Len(replies)].status_code

C2_Witness ==
    /\ ListCall /\ pc = "done"
    /\ Cardinality(QueryIndexes(requests)) = 2
    /\ replies[Len(replies)].kind = "http"
    /\ replies[Len(replies)].status_code = 400
    /\ outcome.kind = "raise"

(***************************************************************************)
(* C3  As claimed: a first query that fails in any way other than HTTP 400 *)
(* with a filter attached ends the call, without a further request, with a *)
(* RuntimeError carrying the upstream status and message.                  *)
(***************************************************************************)
FirstQueryFailedFatally ==
    /\ ListCall
    /\ FirstQueryAnswered(requests, replies)
    /\ FirstQueryReply(requests, replies).kind # "ok"
    /\ ~FilterRejected(requests, replies)

NoRequestAfterFirstQuery ==
    /\ Len(requests) = FirstQueryIndex(requests)
    /\ Cardinality(QueryIndexes(requests)) = 1
    /\ pc = "done"
    /\ outcome.kind = "raise"

C3_AnyFailureIsQueryError ==
    FirstQueryFailedFatally =>
        /\ NoRequestAfterFirstQuery
        /\ outcome.exc.type = "RuntimeError"

(***************************************************************************)
(* C3 as amended: a first query answered with an HTTP error status other   *)
(* than 400-with-filter ends the call, without a further request, with a   *)
(* RuntimeError carrying the upstream status and message; a first query    *)
(* that fails at transport level ends it, without a further request, with  *)
(* the transport exception itself.  In neither case is a list returned.    *)
(***************************************************************************)
C3_HttpFailureIsQueryError ==
    FirstQueryFailedFatally =>
        LET reply == FirstQueryReply(requests, replies)
        IN /\ NoRequestAfterFirstQuery
           /\ reply.kind = "http" =>
                /\ outcome.exc.type = "RuntimeError"
                /\ outcome.exc.status_code = reply.status_code
                /\ outcome.exc.detail = reply.message
           /\ reply.kind = "transport" => outcome.exc.type = "TransportError"

C3_Witness ==
    /\ FirstQueryFailedFatally
    /\ "filter" \notin DOMAIN FirstQuery(requests).json
    /\ FirstQueryReply(requests, replies).kind = "http"
    /\ FirstQueryReply(requests, replies).status_code = 400
    /\ outcome.kind = "raise"
    /\ outcome.exc.type = "RuntimeError"

(***************************************************************************)
(* C4  A filtered list_bugs call whose filtered query the source rejects   *)
(* with 400 returns exactly what the list_bugs call with the same database *)
(* id and limit and no status_filter returns against the unchanged source. *)
(***************************************************************************)
C4_RejectedFilterGivesUnfilteredList ==
    (ListCall /\ pc = "done" /\ prev.op = "list_bugs"
     /\ prev.call.database_id = call.database_id /\ prev.call.limit = call.limit) =>
        /\ (FilterRejected(requests, replies) /\ ~Truthy(prev.call.status_filter)
            /\ prev.outcome.kind = "return") => outcome = prev.outcome
        /\ (FilterRejected(prev.requests, prev.replies) /\ ~Truthy(call.status_filter)
            /\ outcome.kind = "return") => prev.outcome = outcome

C4_Witness ==
    /\ ListCall /\ pc = "done" /\ prev.op = "list_bugs"
    /\ FilterRejected(requests, replies)
    /\ prev.call.status_filter = None
    /\ prev.outcome.kind = "return"
    /\ Len(prev.outcome.value) > 0
    /\ outcome = prev.outcome

(***************************************************************************)
(* C5  update_bug_status sends the status-shaped PATCH first; it sends a   *)
(* select-shaped PATCH only after the first failed with an HTTP error, at  *)
(* most once, for the same page, property name and value; after an         *)
(* acknowledged first PATCH it sends nothing more.  At most 2 PATCHes.     *)
(***************************************************************************)
C5_StatusShapeThenSelectShape ==
    UpdateCall =>
        /\ Len(requests) \in {1, 2}
        /\ \A i \in 1..Len(requests) :
            requests[i].method = "PATCH" /\ requests[i].path = <<"pages", call.page_id>>
        /\ requests[1].json =
            [properties |->
                (call.status_property_name :> [status |-> [name |-> call.status]])]
        /\ Len(requests) = 2 =>
            /\ replies[1].kind = "http"
            /\ requests[2].json =
                [properties |->
                    (call.status_property_name :> [select |-> [name |-> call.status]])]
        /\ (Len(replies) >= 1 /\ replies[1].kind = "ok") => Len(requests) = 1

C5_Witness ==
    /\ UpdateCall /\ pc = "done"
    /\ Len(requests) = 2
    /\ replies[1].kind = "http"
    /\ replies[2].kind = "ok"
    /\ "select" \in DOMAIN requests[2].json.properties[call.status_property_name]

(***************************************************************************)
(* C6  update_bug_status returns True exactly when the source acknowledged *)
(* one of the two PATCHes; when both fail with an HTTP error it ends with  *)
(* a RuntimeError carrying the upstream status; it never returns another   *)
(* value and never sends a read-back request.                              *)
(***************************************************************************)
C6_SuccessOnlyWhenAcknowledged ==
    (UpdateCall /\ pc = "done") =>
        LET acknowledged == \E i \in 1..Len(replies) : replies[i].kind = "ok"
        IN /\ (outcome.kind = "return") <=> acknowledged
           /\ outcome.kind = "return" => outcome.value = TRUE
           /\ (Len(replies) = 2 /\ replies[1].kind = "http" /\ replies[2].kind = "http") =>
                /\ outcome.kind = "raise"
                /\ outcome.exc.type = "RuntimeError"
                /\ outcome.exc.status_code = replies[2].status_code
           /\ \A i \in 1..Len(requests) : requests[i].method = "PATCH"

C6_Witness ==
    /\ UpdateCall /\ pc = "done"
    /\ Len(replies) = 2
    /\ replies[1].kind = "http" /\ replies[2].kind = "http"
    /\ outcome.kind = "raise"
    /\ outcome.exc.type = "RuntimeError"

(***************************************************************************)
(* C7  A list_bugs call with neither an explicit database id nor a service *)
(* default ends at once with a ValueError: the step that starts it ends    *)
(* it, no request is sent, and the service fields are unchanged.           *)
(***************************************************************************)
NoDatabaseId ==
    ListCall /\ ~Truthy(call.database_id) /\ ~Truthy(service.database_id)

C7_NoDatabaseIdIsConfigurationError ==
    [][NoDatabaseId' =>
        /\ pc' = "done"
        /\ outcome' = [kind |-> "raise",
                       exc |-> [type |-> "ValueError", msg |-> "Database ID is required"]]
        /\ requests' = <<>>
        /\ replies' = <<>>
        /\ service' = service]_vars

C7_Witness ==
    /\ NoDatabaseId
    /\ call.database_id = ""
    /\ service.database_id = ""
    /\ pc = "done"
    /\ outcome.kind = "raise"
    /\ outcome.exc.type = "ValueError"

(***************************************************************************)
(* C8  As claimed: whenever the schema read GET /databases/{id} fails, on  *)
(* a transport failure as on an HTTP error, list_bugs goes on to send its  *)
(* query, without a filter, instead of raising.                            *)
(***************************************************************************)
SchemaReadFailed ==
    /\ ListCall
    /\ Len(replies) >= 1
    /\ IsSchemaRead(requests[1])
    /\ replies[1].kind # "ok"

C8_SchemaFailureNeverAborts ==
    SchemaReadFailed =>
        /\ Len(requests) >= 2
        /\ IsQuery(requests[2])
        /\ "filter" \notin DOMAIN requests[2].json

(***************************************************************************)
(* C9  As claimed: for every integer limit, 0 and negative ones included,  *)
(* the sequence list_bugs returns is never longer than limit.  A limit     *)
(* below 0 is read in the claim's favour, as allowing no row at all.       *)
(***************************************************************************)
C9_LengthNeverExceedsLimit ==
    (ListCall /\ pc = "done" /\ outcome.kind = "return") =>
        Len(outcome.value) <= Max(call.limit, 0)

(***************************************************************************)
(* C10  As claimed: every query of list_bugs, the first and the retry,     *)
(* carries page_size = min(limit or default, 100) with default = 100, so a *)
(* limit of 0 is sent as 100.                                              *)
(***************************************************************************)
C10_PageSizeIsCappedLimitOrDefault ==
    ListCall =>
        \A i \in QueryIndexes(requests) :
            requests[i].json.page_size =
                Min(IF call.limit = 0 THEN DEFAULT_LIMIT ELSE call.limit, 100)

(***************************************************************************)
(* C11  test_connection never raises: it sends one GET /users/me and       *)
(* returns a pair, (True, None) exactly when the request succeeded and     *)
(* (False, message) with the captured failure otherwise, on an HTTP error  *)
(* status as on a transport-level exception.                               *)
(***************************************************************************)
ProbeCall == call.op = "test_connection"

C11_ProbeNeverRaises ==
    ProbeCall =>
        /\ requests = <<[method |-> "GET", path |-> <<"users", "me">>]>>
        /\ outcome.kind # "raise"
        /\ pc = "done" =>
            /\ outcome.kind = "return"
            /\ Len(outcome.value) = 2
            /\ (outcome.value = <<TRUE, None>>) <=> (replies[1].kind = "ok")
            /\ replies[1].kind # "ok" =>
                /\ outcome.value[1] = FALSE
                /\ outcome.value[2] \notin {None, ""}
            /\ replies[1].kind = "http" =>
                outcome.value[2] \in
                    {ToString(replies[1].status_code) \o ": " \o replies[1].message,
                     ToString(replies[1].status_code) \o ": "
                        \o StrOfException(replies[1])}

C11_Witness ==
    /\ ProbeCall /\ pc = "done"
    /\ replies[1].kind = "transport"
    /\ outcome.kind = "return"
    /\ outcome.value[1] = FALSE

(***************************************************************************)
(* C12  add_comment sends exactly one POST /comments whatever the outcome: *)
(* it returns True exactly when the request was acknowledged, and an HTTP  *)
(* error ends it with a RuntimeError carrying the upstream status, without *)
(* a retry.                                                                *)
(***************************************************************************)
CommentCall == call.op = "add_comment"

C12_CommentIsOneWrite ==
    CommentCall =>
        /\ Len(requests) = 1
        /\ requests[1].method = "POST" /\ requests[1].path = <<"comments">>
        /\ requests[1].json.parent.page_id = call.page_id
        /\ pc = "done" =>
            /\ (outcome = [kind |-> "return", value |-> TRUE]) <=> (replies[1].kind = "ok")
            /\ outcome.kind = "return" => outcome.value = TRUE
            /\ replies[1].kind = "http" =>
                /\ outcome.kind = "raise"
                /\ outcome.exc.type = "RuntimeError"
                /\ outcome.exc.status_code = replies[1].status_code

C12_Witness ==
    /\ CommentCall /\ pc = "done"
    /\ replies[1].kind = "http"
    /\ Len(requests) = 1
    /\ outcome.kind = "raise"
    /\ outcome.exc.type = "RuntimeError"

(***************************************************************************)
(* The filter builder on its own: _build_status_filter applied to every    *)
(* schema of up to MaxProps properties.                                    *)
(***************************************************************************)
SchemaNames == {"Status", "STATUS", "state", "Stage", "Name"}
SchemaTypes == {"status", "select", "multi_select", "rich_text"}
SchemaEntries == [name : SchemaNames, value : SchemaTypes]
Schemas ==
    UNION {{s \in [1..n -> SchemaEntries] :
                \A i, j \in 1..n : i # j => s[i].name # s[j].name} : n \in 0..MaxProps}
StatusValueArgs == {"Done", "In progress"}

InitPure ==
    /\ service = [api_key |-> "secret_k", database_id |-> None]
    /\ source = {}
    /\ pc = "idle"
    /\ call = NoCall
    /\ locals = NoneDict
    /\ requests = <<>>
    /\ replies = <<>>
    /\ outcome = Pending
    /\ prev = NoPrev

BuildStatusFilter ==
    \E schema \in Schemas, status_value \in StatusValueArgs :
        /\ pc = "idle"
        /\ call' = [op |-> "_build_status_filter", schema |-> schema,
                    status_value |-> status_value]
        /\ outcome' = Return(_build_status_filter(schema, status_value))
        /\ pc' = "done"
        /\ UNCHANGED <<service, source, locals, requests, replies, prev>>

NextFilter == BuildStatusFilter

SpecFilter == InitPure /\ [][NextFilter]_vars

FilterCall == call.op = "_build_status_filter"
\* the names of the model that are status, state or stage but for their case
StatusLikeNames == {"Status", "STATUS", "status", "State", "state", "Stage", "stage"}
\* the schema entries a condition is due for, in the schema's order
DueEntries(schema) ==
    SelectSeq(schema, LAMBDA e : e.name \in StatusLikeNames
                                 /\ e.value \in {"status", "select", "multi_select"})
\* the condition due for one such entry
DueCondition(e, v) ==
    CASE e.value = "status" -> [property |-> e.name, status |-> [equals |-> v]]
      [] e.value = "select" -> [property |-> e.name, select |-> [equals |-> v]]
      [] e.value = "multi_select" ->
            [property |-> e.name, multi_select |-> [contains |-> v]]
IsCondition(f) == "property" \in DOMAIN f /\ "or" \notin DOMAIN f
\* the conditions a filter holds
ConditionsOf(f) ==
    IF f = NoneDict THEN <<>> ELSE IF "or" \in DOMAIN f THEN f.or ELSE <<f>>

(***************************************************************************)
(* C13  _build_status_filter returns none when no condition results, the   *)
(* single condition unwrapped when one results, and an {or: [...]} node    *)
(* holding all of them when several result: never a deeper tree.           *)
(***************************************************************************)
C13_NoneSingleOrOr ==
    (FilterCall /\ pc = "done") =>
        LET n == Len(DueEntries(call.schema))
            f == outcome.value
        IN /\ n = 0 => f = NoneDict
           /\ n = 1 => IsCondition(f)
           /\ n >= 2 =>
                /\ DOMAIN f = {"or"}
                /\ Len(f.or) = n
                /\ \A i \in 1..n : IsCondition(f.or[i])

C13_Witness ==
    /\ FilterCall /\ pc = "done"
    /\ Len(DueEntries(call.schema)) = 2
    /\ Len(call.schema) = 3
    /\ DOMAIN outcome.value = {"or"}
    /\ Len(outcome.value.or) = 2

(***************************************************************************)
(* C14  The conditions of the filter are exactly one per schema entry      *)
(* whose name is status, state or stage but for its case and whose type is *)
(* status, select or multi_select: equals for status and select, contains  *)
(* for multi_select, under the name as the schema spells it; other entries *)
(* give no condition.                                                      *)
(***************************************************************************)
C14_OneConditionPerStatusLikeEntry ==
    (FilterCall /\ pc = "done") =>
        LET due == DueEntries(call.schema)
            got == ConditionsOf(outcome.value)
        IN /\ Len(got) = Len(due)
           /\ \A i \in 1..Len(due) : got[i] = DueCondition(due[i], call.status_value)

C14_Witness ==
    /\ FilterCall /\ pc = "done"
    /\ \E i \in 1..Len(call.schema) :
        call.schema[i].name = "STATUS" /\ call.schema[i].value = "multi_select"
    /\ \E i \in 1..Len(call.schema) :
        call.schema[i].name = "Stage" /\ call.schema[i].value = "rich_text"
    /\ outcome.value =
        [property |-> "STATUS", multi_select |-> [contains |-> call.status_value]]

(***************************************************************************)
(* The extractors and the assembly of a NotionBug on their own, applied to *)
(* every property map over three names.                                    *)
(***************************************************************************)
\* what the source can hold under one property name, well-formed or not
PropValues ==
    {NoneDict,
     EmptyDict,
     [status |-> [name |-> "Done"]],
     [type |-> "status", status |-> [name |-> "Done"]],
     [type |-> "status", status |-> NoneDict],
     [type |-> "status"],
     [type |-> "select", select |-> [name |-> "Blocked"]],
     [type |-> "select", select |-> NoneDict],
     [type |-> "rich_text", rich_text |-> <<[plain_text |-> "steps"]>>],
     [type |-> "rich_text", rich_text |-> <<>>],
     [type |-> "title", title |-> <<[plain_text |-> "Fix "], [plain_text |-> "bug"]>>],
     [type |-> "title", title |-> <<>>],
     [type |-> "title", title |-> <<[plain_text |-> ""]>>],
     [type |-> "title", title |-> <<[href |-> ""]>>],
     [type |-> "title", title |-> <<NoneDict>>]}
\* the property names of a page, in the order the source lists them
PropNames == <<"Name", "Status", "status">>
Absent == [absent |-> TRUE]
\* the ordered dict holding the values of the names that are present
PropertiesOf(choice) ==
    LET present == SelectSeq(<<1, 2, 3>>, LAMBDA i : choice[i] # Absent)
    IN [k \in 1..Len(present) |->
            [name |-> PropNames[present[k]], value |-> choice[present[k]]]]
PropertyMaps == {PropertiesOf(c) : c \in [1..3 -> PropValues \cup {Absent}]}
\* the property_name arguments list_bugs and get_bug pass for the status
PropertyNameArgs == {"Status", "status"}

\* the value an extractor returns, or the exception it ends with
ExtractOutcome(v) ==
    IF v = AttributeError THEN Raise([type |-> "AttributeError"]) ELSE Return(v)

ExtractTitle ==
    \E properties \in PropertyMaps :
        /\ pc = "idle"
        /\ call' = [op |-> "_extract_title", properties |-> properties]
        /\ outcome' = ExtractOutcome(_extract_title(properties))
        /\ pc' = "done"
        /\ UNCHANGED <<service, source, locals, requests, replies, prev>>

ExtractRichText ==
    \E properties \in PropertyMaps, property_name \in PropertyNameArgs :
        /\ pc = "idle"
        /\ call' = [op |-> "_extract_rich_text", properties |-> properties,
                    property_name |-> property_name]
        /\ outcome' = ExtractOutcome(_extract_rich_text(properties, property_name))
        /\ pc' = "done"
        /\ UNCHANGED <<service, source, locals, requests, replies, prev>>

ExtractSelect ==
    \E properties \in PropertyMaps, property_name \in PropertyNameArgs :
        /\ pc = "idle"
        /\ call' = [op |-> "_extract_select", properties |-> properties,
                    property_name |-> property_name]
        /\ outcome' = ExtractOutcome(_extract_select(properties, property_name))
        /\ pc' = "done"
        /\ UNCHANGED <<service, source, locals, requests, replies, prev>>

ExtractStatus ==
    \E properties \in PropertyMaps, property_name \in PropertyNameArgs :
        /\ pc = "idle"
        /\ call' = [op |-> "_extract_status", properties |-> properties,
                    property_name |-> property_name]
        /\ outcome' = ExtractOutcome(_extract_status(properties, property_name))
        /\ pc' = "done"
        /\ UNCHANGED <<service, source, locals, requests, replies, prev>>

\* the body of the loop of list_bugs, the tail of get_bug: one page to one bug
AssembleBug ==
    \E properties \in PropertyMaps :
        LET page == [id |-> "page-1", url |-> "", properties |-> properties]
            bug == NotionBug(page)
        IN /\ pc = "idle"
           /\ call' = [op |-> "NotionBug", page |-> page]
           /\ outcome' = IF bug = NotionBugRaised
                         THEN Raise([type |-> "AttributeError"])
                         ELSE Return(bug)
           /\ pc' = "done"
           /\ UNCHANGED <<service, source, locals, requests, replies, prev>>

\* the tail of get_bug: the page it got to the bug it returns
AssembleGetBug ==
    \E properties \in PropertyMaps :
        LET page == [id |-> "page-1", url |-> "", properties |-> properties]
        IN /\ pc = "idle"
           /\ call' = [op |-> "get_bug NotionBug", page |-> page]
           /\ outcome' = AssembleOutcome(page)
           /\ pc' = "done"
           /\ UNCHANGED <<service, source, locals, requests, replies, prev>>

NextExtract ==
    \/ AssembleGetBug
    \/ ExtractTitle
    \/ ExtractRichText
    \/ ExtractSelect
    \/ ExtractStatus
    \/ AssembleBug

SpecExtract == InitPure /\ [][NextExtract]_vars

AssembleCall == call.op = "NotionBug"
ExtractorCall ==
    call.op \in {"_extract_title", "_extract_rich_text", "_extract_select",
                 "_extract_status"}
\* a title-typed property of the map has a run with text in it
YieldsTitleText(properties) ==
    \E i \in 1..Len(properties) :
        LET v == properties[i].value
        IN /\ v # NoneDict
           /\ "type" \in DOMAIN v /\ v.type = "title"
           /\ \E k \in 1..Len(v.title) :
                /\ v.title[k] # NoneDict
                /\ "plain_text" \in DOMAIN v.title[k]
                /\ v.title[k].plain_text # ""
\* the value the named property holds as a status or a select, None without
HeldValue(properties, name) ==
    IF ~HasKey(properties, name) THEN None
    ELSE LET v == ItemGet(properties, name)
         IN IF v = NoneDict \/ "type" \notin DOMAIN v THEN None
            ELSE IF v.type = "status" /\ "status" \in DOMAIN v /\ v.status # NoneDict
            THEN v.status.name
            ELSE IF v.type = "select" /\ "select" \in DOMAIN v /\ v.select # NoneDict
            THEN v.select.name
            ELSE None

(***************************************************************************)
(* C15  Every bug that is assembled has a non-empty title, and the title   *)
(* is "Untitled" whenever no title-typed property yields text.             *)
(***************************************************************************)
C15_TitleNeverEmpty ==
    (AssembleCall /\ pc = "done" /\ outcome.kind = "return") =>
        /\ outcome.value.title # ""
        /\ ~YieldsTitleText(call.page.properties) => outcome.value.title = "Untitled"

(***************************************************************************)
(* C16  Whenever the page's "Status" property holds a value, as a status   *)
(* or as a select, the assembled bug's status is that value.               *)
(***************************************************************************)
C16_CapitalizedStatusWins ==
    (AssembleCall /\ pc = "done" /\ outcome.kind = "return"
        /\ HeldValue(call.page.properties, "Status") # None) =>
        outcome.value.status = HeldValue(call.page.properties, "Status")

(***************************************************************************)
(* C20  An extractor never raises: whatever the property map, it returns.  *)
(***************************************************************************)
C20_ExtractorsNeverRaise ==
    (ExtractorCall /\ pc = "done") => outcome.kind = "return"

(***************************************************************************)
(* C17  A list_bugs call with the arguments of the list_bugs call before   *)
(* it, against the unchanged source, issues the same requests in the same  *)
(* order and ends as that call ended; the bugs it returns are the rows of  *)
(* the source's answer in the source's order, each row once.               *)
(***************************************************************************)
C17_SameArgumentsSameRun ==
    (ListCall /\ prev.op = "list_bugs" /\ prev.call = call) =>
        /\ Len(requests) <= Len(prev.requests)
        /\ requests = SubSeq(prev.requests, 1, Len(requests))
        /\ pc = "done" =>
            /\ requests = prev.requests
            /\ outcome = prev.outcome
        /\ (pc = "done" /\ outcome.kind = "return") =>
            LET rows == DictGet(replies[Len(replies)].data, "results", <<>>)
            IN /\ Len(outcome.value) <= Len(rows)
               /\ \A i \in 1..Len(outcome.value) : outcome.value[i].page_id = rows[i].id

C17_Witness ==
    /\ ListCall /\ pc = "done"
    /\ prev.op = "list_bugs" /\ prev.call = call
    /\ call.status_filter = "Done"
    /\ Len(requests) = 3
    /\ requests = prev.requests
    /\ outcome.kind = "return"
    /\ Len(outcome.value) = 2
    /\ outcome.value[1].page_id = "page-2"
    /\ outcome = prev.outcome

(***************************************************************************)
(* C18  A list_bugs call with a status_filter makes at most two network    *)
(* round trips.                                                            *)
(***************************************************************************)
C18_FilteredListAtMostTwoRoundTrips ==
    (ListCall /\ Truthy(call.status_filter)) => Len(requests) <= 2

(***************************************************************************)
(* C18 (amended)  A list_bugs call with a status_filter makes at most      *)
(* three network round trips, one after the other: the schema read, the    *)
(* filtered query and the unfiltered retry; a call without a status_filter *)
(* makes at most one.                                                      *)
(***************************************************************************)
C18_FilteredListAtMostThreeRoundTrips ==
    ListCall =>
        /\ Len(requests) <= (IF Truthy(call.status_filter) THEN 3 ELSE 1)
        /\ Len(replies) <= Len(requests)
        /\ Len(requests) <= Len(replies) + 1
        /\ Len(requests) = 3 =>
            /\ IsSchemaRead(requests[1])
            /\ IsQuery(requests[2]) /\ "filter" \in DOMAIN requests[2].json
            /\ IsQuery(requests[3]) /\ "filter" \notin DOMAIN requests[3].json

C18_Witness ==
    /\ ListCall /\ pc = "done"
    /\ Truthy(call.status_filter)
    /\ Len(requests) = 3
    /\ Len(replies) = 3

(***************************************************************************)
(* Two callers on one service instance.  The arguments and locals of a     *)
(* call are its own (a Python frame); the instance's fields and the source *)
(* behind the client are shared.  The variables of the call that is        *)
(* running are pc, call, locals, requests, replies and outcome; the call   *)
(* of the other thread is parked in prev, and the threads change places    *)
(* between any two steps.                                                  *)
(***************************************************************************)
Frame(p, c, l, rq, rp, o) ==
    [op |-> "parked", pc |-> p, call |-> c, locals |-> l,
     requests |-> rq, replies |-> rp, outcome |-> o]
IdleFrame == Frame("idle", NoCall, NoneDict, <<>>, <<>>, Pending)
\* the arguments the two callers pass
ThreadStatusFilters == {None, "Done"}
ThreadLimits == {1}

InitThreads ==
    /\ service = [api_key |-> "secret_k", database_id |-> "db-default"]
    /\ source = {}
    /\ pc = "idle"
    /\ call = NoCall
    /\ locals = NoneDict
    /\ requests = <<>>
    /\ replies = <<>>
    /\ outcome = Pending
    /\ prev = IdleFrame

ThreadListBugs ==
    \E status_filter \in ThreadStatusFilters, limit \in ThreadLimits :
        /\ pc = "idle"
        /\ ListBugsEntry(None, status_filter, limit)
        /\ UNCHANGED <<service, source, prev>>

ThreadUpdateBugStatus ==
    \E page_id \in PageIds, status \in StatusValues,
       status_property_name \in StatusPropertyNames :
        /\ pc = "idle"
        /\ UpdateBugStatusEntry(page_id, status, status_property_name)
        /\ UNCHANGED <<service, source, prev>>

ThreadAddComment ==
    \E page_id \in PageIds, comment \in Comments :
        /\ pc = "idle"
        /\ AddCommentEntry(page_id, comment)
        /\ UNCHANGED <<service, source, prev>>

ThreadTestConnection ==
    /\ pc = "idle"
    /\ TestConnectionEntry
    /\ UNCHANGED <<service, source, prev>>

ThreadGetBug ==
    \E page_id \in PageIds :
        /\ pc = "idle"
        /\ GetBugEntry(page_id)
        /\ UNCHANGED <<service, source, prev>>

\* the other thread runs
Yield ==
    /\ prev' = Frame(pc, call, locals, requests, replies, outcome)
    /\ pc' = prev.pc
    /\ call' = prev.call
    /\ locals' = prev.locals
    /\ requests' = prev.requests
    /\ replies' = prev.replies
    /\ outcome' = prev.outcome
    /\ UNCHANGED <<service, source>>

NextThreads ==
    \/ ThreadListBugs
    \/ SchemaResponse
    \/ QueryResponse
    \/ RetryResponse
    \/ ThreadUpdateBugStatus
    \/ PatchResponse
    \/ FallbackResponse
    \/ ThreadAddComment
    \/ CommentResponse
    \/ ThreadTestConnection
    \/ ProbeResponse
    \/ ThreadGetBug
    \/ PageResponse
    \/ Yield

SpecThreads == InitThreads /\ [][NextThreads]_vars

\* the call that is running, as a frame
Running == Frame(pc, call, locals, requests, replies, outcome)
\* every answer a call got is the source's answer to the request it made
OwnAnswers(f) ==
    /\ Len(f.replies) <= Len(f.requests)
    /\ \A i \in 1..Len(f.replies) :
        [request |-> f.requests[i], response |-> f.replies[i]] \in source
\* what a call that runs alone does with the source's answers: the first
\* request and the end of an operation of one round trip, the bounds of the
\* two others
AsAlone(f) ==
    CASE f.call.op = "list_bugs" ->
            /\ Len(f.requests) <= (IF Truthy(f.call.status_filter) THEN 3 ELSE 1)
            /\ \A i \in 1..Len(f.requests) :
                IsQuery(f.requests[i]) =>
                    f.requests[i].json.page_size = Min(f.call.limit, MAX_PAGE_SIZE)
            /\ (f.pc = "done" /\ ~Truthy(f.call.status_filter)
                /\ f.replies[1].kind = "http") => f.outcome.kind = "raise"
      [] f.call.op = "update_bug_status" ->
            /\ Len(f.requests) <= 2
            /\ f.requests[1].json =
                StatusPayload(f.call.status_property_name, f.call.status)
            /\ (f.pc = "done") =>
                (f.outcome = Return(TRUE)) = (f.replies[Len(f.replies)].kind = "ok")
      [] f.call.op = "add_comment" ->
            /\ f.requests = <<PostRequest(CommentsPath,
                                          CommentPayload(f.call.page_id, f.call.comment))>>
            /\ (f.pc = "done") => f.outcome = CommentOutcome(f.replies[1])
      [] f.call.op = "test_connection" ->
            /\ f.requests = <<GetRequest(UsersMePath)>>
            /\ (f.pc = "done") => f.outcome = ProbeOutcome(f.replies[1])
      [] f.call.op = "get_bug" ->
            /\ f.requests = <<GetRequest(PagePath(f.call.page_id))>>
            /\ (f.pc = "done") => f.outcome = GetBugOutcome(f.replies[1])
      [] OTHER -> f.pc = "idle"
\* two calls with the same arguments go the same way
SameWay(f, g) ==
    (f.call = g.call) =>
        /\ \A i \in 1..Min(Len(f.requests), Len(g.requests)) :
            f.requests[i] = g.requests[i]
        /\ \A i \in 1..Min(Len(f.replies), Len(g.replies)) :
            f.replies[i] = g.replies[i]
        /\ (f.pc = "done" /\ g.pc = "done") =>
            /\ f.requests = g.requests
            /\ f.outcome = g.outcome

(***************************************************************************)
(* C19  Two operations running at once on one service instance do not      *)
(* interfere: no step writes a field of the service; a step of one call    *)
(* leaves the other call as it was; each call gets the source's answers to *)
(* its own requests and goes as it goes alone, so that two calls with the  *)
(* same arguments issue the same requests and end the same way.            *)
(***************************************************************************)
C19_ConcurrentCallsDoNotInterfere ==
    [][/\ service' = service
       /\ prev' = prev \/ (prev' = Running /\ Running' = prev)
       /\ OwnAnswers(Running)' /\ OwnAnswers(prev)'
       /\ AsAlone(Running)' /\ AsAlone(prev)'
       /\ SameWay(Running, prev)']_vars

\* an unfiltered list_bugs ends on the 400 its query got, without a retry,
\* while the filtered list_bugs of the other thread waits for its query
C19_Witness ==
    /\ pc = "done"
    /\ call.op = "list_bugs" /\ call.status_filter = None
    /\ Len(requests) = 1
    /\ replies[1].kind = "http" /\ replies[1].status_code = 400
    /\ outcome.kind = "raise"
    /\ prev.pc = "query"
    /\ prev.call.op = "list_bugs" /\ prev.call.status_filter = "Done"
    /\ "filter" \in DOMAIN prev.locals.query_body

\* the database id a list_bugs call is about: its argument, else the default
DbIdOfCall == IF Truthy(call.database_id) THEN call.database_id ELSE service.database_id
SchemaReadIndexes(reqs) == {i \in 1..Len(reqs) : IsSchemaRead(reqs[i])}
\* the filter due for a schema and a value: none, the condition, or the OR
DueFilter(schema, v) ==
    LET due == DueEntries(schema)
    IN IF Len(due) = 0 THEN NoneDict
       ELSE IF Len(due) = 1 THEN DueCondition(due[1], v)
       ELSE [or |-> [i \in 1..Len(due) |-> DueCondition(due[i], v)]]
\* the schema mapping a schema read's answer stands for
SchemaAnswered(resp) ==
    IF resp.kind = "ok" /\ "properties" \in DOMAIN resp.data
    THEN [i \in 1..Len(resp.data.properties) |->
            [name |-> resp.data.properties[i].name,
             value |-> resp.data.properties[i].value.type]]
    ELSE <<>>
\* the filter the first query of the call is due to carry, NoneDict for none
FilterDue ==
    IF ~Truthy(call.status_filter) THEN NoneDict
    ELSE DueFilter(SchemaAnswered(replies[1]), call.status_filter)

C23_OneSchemaReadPerFilteredCall ==
    ListCall =>
        IF Truthy(call.status_filter)
        THEN /\ SchemaReadIndexes(requests) = {1}
             /\ requests[1].path = <<"databases", DbIdOfCall>>
        ELSE SchemaReadIndexes(requests) = {}

(***************************************************************************)
(* C23 (amended)  Every list_bugs call with a status_filter and a database *)
(* id (its argument or the default) issues exactly one schema read, for    *)
(* that database id and as its first request, whatever an earlier call     *)
(* read; a call without status_filter issues none; a call without a        *)
(* database id issues no request at all.                                   *)
(***************************************************************************)
C23_OneSchemaReadPerFilteredCallWithDbId ==
    ListCall =>
        IF ~Truthy(DbIdOfCall) THEN requests = <<>>
        ELSE IF Truthy(call.status_filter)
        THEN /\ SchemaReadIndexes(requests) = {1}
             /\ requests[1].path = <<"databases", DbIdOfCall>>
        ELSE SchemaReadIndexes(requests) = {}

\* the second of two filtered calls has read the schema again
C23_Witness ==
    /\ ListCall /\ pc = "done"
    /\ prev.op = "list_bugs" /\ Truthy(prev.call.status_filter)
    /\ Len(prev.requests) >= 1 /\ IsSchemaRead(prev.requests[1])
    /\ call.status_filter = "Done" /\ call.database_id = "db-arg"
    /\ service.database_id = "db-default"
    /\ requests[1] = GetRequest(<<"databases", "db-arg">>)
    /\ SchemaReadIndexes(requests) = {1}
    /\ Len(requests) >= 2

GetBugCall == call.op = "get_bug"

(***************************************************************************)
(* C24  get_bug sends exactly one GET /pages/{page_id}; when that fails    *)
(* with an HTTP error it ends with a RuntimeError, sends nothing more and  *)
(* returns no bug; it returns only from an acknowledged read.              *)
(***************************************************************************)
C24_GetBugIsOneReadNoRecovery ==
    GetBugCall =>
        /\ requests = <<GetRequest(<<"pages", call.page_id>>)>>
        /\ Len(replies) <= 1
        /\ (pc = "done") = (Len(replies) = 1)
        /\ (pc = "done" /\ replies[1].kind = "http") =>
            /\ outcome.kind = "raise"
            /\ outcome.exc.type = "RuntimeError"
            /\ outcome.exc.status_code = replies[1].status_code
        /\ outcome.kind = "return" => replies[1].kind = "ok"

C24_Witness ==
    /\ GetBugCall /\ pc = "done"
    /\ Len(requests) = 1
    /\ replies[1].kind = "http" /\ replies[1].status_code = 404
    /\ outcome.kind = "raise" /\ outcome.exc.type = "RuntimeError"

(***************************************************************************)
(* C25  For every page envelope, get_bug builds from it the bug list_bugs  *)
(* builds from it as a result row: page_id, title, description, status,    *)
(* priority, url and properties are equal, and the one raises where the    *)
(* other does.                                                             *)
(***************************************************************************)
C25_GetBugAssemblesAsListBugs ==
    (call.op = "get_bug NotionBug" /\ pc = "done") =>
        LET row == NotionBug(call.page)
        IN IF row = NotionBugRaised
           THEN outcome.kind = "raise"
           ELSE /\ outcome.kind = "return"
                /\ outcome.value.page_id = row.page_id
                /\ outcome.value.title = row.title
                /\ outcome.value.description = row.description
                /\ outcome.value.status = row.status
                /\ outcome.value.priority = row.priority
                /\ outcome.value.url = row.url
                /\ outcome.value.properties = row.properties

C25_Witness ==
    /\ call.op = "get_bug NotionBug" /\ pc = "done"
    /\ HeldValue(call.page.properties, "Status") = "Blocked"
    /\ HeldValue(call.page.properties, "status") = "Done"
    /\ Len(call.page.properties) = 3
    /\ outcome.kind = "return"
    /\ outcome.value.status = "Done"
    /\ outcome.value.title = "Fix bug"

\* the bugs a call has returned: those of list_bugs, the one of get_bug
ReturnedBugs(f) ==
    IF f.outcome.kind # "return" THEN <<>>
    ELSE IF f.call.op = "list_bugs" THEN f.outcome.value
    ELSE IF f.call.op = "get_bug" THEN <<f.outcome.value>>
    ELSE <<>>
\* the pages the source sent the call, in the answer the bugs were built from
PagesSent(f) ==
    IF f.call.op = "list_bugs"
    THEN DictGet(f.replies[Len(f.replies)].data, "results", <<>>)
    ELSE <<f.replies[1].data>>
\* each bug holds the property map of its page, as the source sent it
Verbatim(f) ==
    ReturnedBugs(f) # <<>> =>
        /\ Len(ReturnedBugs(f)) <= Len(PagesSent(f))
        /\ \A i \in 1..Len(ReturnedBugs(f)) :
            /\ ReturnedBugs(f)[i].page_id = PagesSent(f)[i].id
            /\ ReturnedBugs(f)[i].properties = PagesSent(f)[i].properties

(***************************************************************************)
(* C26  The properties of a bug are the property map of its page as the    *)
(* source sent it, and a bug that was returned stays as it is: no step of  *)
(* a later operation on the service, of the same caller or another,        *)
(* changes its properties or any other field.                              *)
(***************************************************************************)
C26_PropertiesVerbatimAndKept ==
    [][/\ Verbatim(Running)' /\ Verbatim(prev)'
       /\ ReturnedBugs(Running) # <<>> =>
            \/ ReturnedBugs(Running)' = ReturnedBugs(Running)
            \/ ReturnedBugs(prev)' = ReturnedBugs(Running)
       /\ ReturnedBugs(prev) # <<>> =>
            \/ ReturnedBugs(prev)' = ReturnedBugs(prev)
            \/ ReturnedBugs(Running)' = ReturnedBugs(prev)]_vars

\* a list_bugs returned a bug with its three properties, and the other
\* thread has since run an update_bug_status to its end
C26_Witness ==
    /\ prev.call.op = "list_bugs" /\ prev.pc = "done"
    /\ Len(ReturnedBugs(prev)) = 1
    /\ Len(ReturnedBugs(prev)[1].properties) = 3
    /\ ReturnedBugs(prev)[1].properties = prev.replies[Len(prev.replies)].data.results[1].properties
    /\ call.op = "update_bug_status" /\ pc = "done"
    /\ outcome = Return(TRUE)

(***************************************************************************)
(* The routes /tasks and /test-connection.  A request builds a service of  *)
(* its own; prev is the frame of the handler that runs, with what it has   *)
(* logged and the response it has returned.  A text that is sliced is the  *)
(* sequence of its characters.                                             *)
(***************************************************************************)
\* the longest run of characters between the first 8 and the last 4 of a key
MaxMiddle == 3
MiddleChars == {"x", "."}
KeyHead == <<"s", "e", "c", "r", "e", "t", "_", "A">>
KeyTail == <<"w", "x", "y", "z">>
Middles == UNION {[1..n -> MiddleChars] : n \in 1..MaxMiddle}
\* keys of more than 12 characters, and keys of 12 and fewer
LongKeys == {KeyHead \o m \o KeyTail : m \in Middles}
ShortKeys == {<<"s", "k">>, KeyHead \o KeyTail}
\* a str and a pydantic SecretStr holding the characters v
Str(v) == [secret |-> FALSE, value |-> v]
SecretStr(v) == [secret |-> TRUE, value |-> v]
\* not api_key: None, '' and an empty SecretStr alike; None and '' are the
\* one value Str(<<>>) here, the code only tests them for truth
KeyTruthy(k) == k.value # <<>>
\* api_key.get_secret_value() if isinstance(api_key, SecretStr) else str(api_key)
ApiKeyValue(api_key) == api_key.value
\* f'{api_key_value[:8]}...{api_key_value[-4:]}' if len(api_key_value) > 12 else '***'
KeyPreview(api_key_value) ==
    IF Len(api_key_value) > 12
    THEN SubSeq(api_key_value, 1, 8) \o <<".", ".", ".">>
         \o SubSeq(api_key_value, Len(api_key_value) - 3, Len(api_key_value))
    ELSE <<"*", "*", "*">>
\* f'Testing Notion connection with key: {key_preview}, database: {database_id}'
ConnectionLogLine(key_preview, database_id) ==
    <<"Testing Notion connection with key: ">> \o key_preview
        \o <<", database: ", database_id>>

\* the X-Notion-Token and X-Notion-Database-Id headers, the user's settings
TaskTokens == {Str(<<>>), Str(KeyHead \o <<"x">> \o KeyTail)}
ConnectionTokens == {Str(v) : v \in {<<>>} \cup LongKeys \cup ShortKeys}
DatabaseIdHeaders == {None, "", "db-header"}
SettingsValues ==
    {NoneDict}
    \cup [notion_api_key : {SecretStr(<<>>), SecretStr(KeyHead \o <<".">> \o KeyTail)},
          notion_database_id : {None, "db-settings"}]
RouteStatusFilters == {None, "Done"}
RouteLimits == {1, 101}

\* api_key = x_notion_token; if not api_key and settings and
\* settings.notion_api_key: api_key = settings.notion_api_key
ResolveApiKey(x_notion_token, settings) ==
    IF ~KeyTruthy(x_notion_token) /\ settings # NoneDict
       /\ KeyTruthy(settings.notion_api_key)
    THEN settings.notion_api_key
    ELSE x_notion_token
\* the same for database_id
ResolveDatabaseId(x_notion_database_id, settings) ==
    IF ~Truthy(x_notion_database_id) /\ settings # NoneDict
       /\ Truthy(settings.notion_database_id)
    THEN settings.notion_database_id
    ELSE x_notion_database_id
\* NotionService(api_key=api_key, database_id=database_id)
NewService(api_key, database_id) ==
    [api_key |-> ApiKeyValue(api_key), database_id |-> database_id]
NoService == NoneDict

JSONResponse(status_code, content) ==
    [kind |-> "response", status_code |-> status_code, content |-> content]
\* str(e) of an exception of the service: its message and what it carries
StrOfError(exc) == [f \in DOMAIN exc \ {"type"} |-> exc[f]]
\* NotionTaskResponse(page_id=bug.page_id, ...) for bug in bugs
Tasks(bugs) ==
    [i \in 1..Len(bugs) |->
        [page_id |-> bugs[i].page_id, title |-> bugs[i].title,
         description |-> bugs[i].description, status |-> bugs[i].status,
         priority |-> bugs[i].priority, url |-> bugs[i].url]]
\* mutant: without the last except clause
TasksResponseNoCatchAll(o) ==
    CASE o.kind = "return" ->
            JSONResponse(200, [tasks |-> Tasks(o.value), total |-> Len(Tasks(o.value))])
      [] o.kind = "raise" /\ o.exc.type = "ValueError" ->
            JSONResponse(400, [error |-> StrOfError(o.exc)])
      [] o.kind = "raise" /\ o.exc.type = "RuntimeError" ->
            JSONResponse(500, [error |-> StrOfError(o.exc)])
      [] OTHER -> o
\* what get_notion_tasks returns once list_bugs has ended with o
TasksResponse(o) ==
    CASE o.kind = "return" ->
            JSONResponse(200, [tasks |-> Tasks(o.value), total |-> Len(Tasks(o.value))])
      [] o.kind = "raise" /\ o.exc.type = "ValueError" ->
            JSONResponse(400, [error |-> StrOfError(o.exc)])
      [] o.kind = "raise" /\ o.exc.type = "RuntimeError" ->
            JSONResponse(500, [error |-> StrOfError(o.exc)])
      [] OTHER -> JSONResponse(500, [error |-> "An unexpected error occurred"])
\* what test_notion_connection returns once test_connection has returned
ConnectionResponse(o) ==
    IF o.value[1]
    THEN JSONResponse(200, [connected |-> TRUE, message |-> "Connected to Notion API"])
    ELSE JSONResponse(200, [connected |-> FALSE,
                            message |-> "Failed to connect to Notion API",
                            error |-> o.value[2]])

InitRoutes ==
    /\ service = NoService
    /\ source = {}
    /\ pc = "idle"
    /\ call = NoCall
    /\ locals = NoneDict
    /\ requests = <<>>
    /\ replies = <<>>
    /\ outcome = Pending
    /\ prev = NoPrev

\* GET /tasks up to the first network call, or to the 400 of a missing setting
GetNotionTasks ==
    \E x_notion_token \in TaskTokens, x_notion_database_id \in DatabaseIdHeaders,
       settings \in SettingsValues, status_filter \in RouteStatusFilters,
       limit \in RouteLimits :
        LET api_key == ResolveApiKey(x_notion_token, settings)
            database_id == ResolveDatabaseId(x_notion_database_id, settings)
            frame == [op |-> "get_notion_tasks", x_notion_token |-> x_notion_token,
                      x_notion_database_id |-> x_notion_database_id,
                      settings |-> settings, status_filter |-> status_filter,
                      limit |-> limit, log |-> <<>>, response |-> Pending]
        IN /\ pc = "idle"
           /\ source' = {}
           /\ IF ~KeyTruthy(api_key)
              THEN /\ prev' = [frame EXCEPT !.response =
                        JSONResponse(400, [error |-> "Notion API key not configured"])]
                   /\ pc' = "responded"
                   /\ UNCHANGED <<service, call, locals, requests, replies, outcome>>
              ELSE IF ~Truthy(database_id)
              THEN /\ prev' = [frame EXCEPT !.response =
                        JSONResponse(400, [error |-> "Notion database ID not configured"])]
                   /\ pc' = "responded"
                   /\ UNCHANGED <<service, call, locals, requests, replies, outcome>>
              ELSE /\ prev' = frame
                   /\ service' = NewService(api_key, database_id)
                   /\ ListBugsEntryOn(NewService(api_key, database_id), None,
                                      status_filter, limit)

\* list_bugs has ended: the handler returns its response
TasksReturn ==
    /\ pc = "done"
    /\ prev.op = "get_notion_tasks"
    /\ prev' = [prev EXCEPT !.response = TasksResponse(outcome)]
    /\ pc' = "responded"
    /\ UNCHANGED <<service, source, call, locals, requests, replies, outcome>>

\* GET /test-connection up to the network call, or to the 400 of a missing key
TestNotionConnection ==
    \E x_notion_token \in ConnectionTokens, x_notion_database_id \in DatabaseIdHeaders,
       settings \in SettingsValues :
        LET api_key == ResolveApiKey(x_notion_token, settings)
            database_id == ResolveDatabaseId(x_notion_database_id, settings)
            frame == [op |-> "test_notion_connection", x_notion_token |-> x_notion_token,
                      x_notion_database_id |-> x_notion_database_id,
                      settings |-> settings, log |-> <<>>, response |-> Pending]
        IN /\ pc = "idle"
           /\ source' = {}
           /\ IF ~KeyTruthy(api_key)
              THEN /\ prev' = [frame EXCEPT !.response =
                        JSONResponse(400, [connected |-> FALSE,
                                           error |-> "Notion API key not configured"])]
                   /\ pc' = "responded"
                   /\ UNCHANGED <<service, call, locals, requests, replies, outcome>>
              ELSE /\ prev' = [frame EXCEPT !.log =
                        <<ConnectionLogLine(KeyPreview(ApiKeyValue(api_key)),
                                            database_id)>>]
                   /\ service' = NewService(api_key, database_id)
                   /\ TestConnectionEntry

\* test_connection has returned: the handler returns its response
ConnectionReturn ==
    /\ pc = "done"
    /\ prev.op = "test_notion_connection"
    /\ prev' = [prev EXCEPT !.response = ConnectionResponse(outcome)]
    /\ pc' = "responded"
    /\ UNCHANGED <<service, source, call, locals, requests, replies, outcome>>

NextRoutes ==
    \/ GetNotionTasks
    \/ SchemaResponse
    \/ QueryResponse
    \/ RetryResponse
    \/ TasksReturn
    \/ TestNotionConnection
    \/ ProbeResponse
    \/ ConnectionReturn

SpecRoutes == InitRoutes /\ [][NextRoutes]_vars

\* the text holds the characters of the key, one after the other
Contains(text, key) ==
    \E i \in 1..Len(text) :
        /\ i + Len(key) - 1 <= Len(text)
        /\ SubSeq(text, i, i + Len(key) - 1) = key
\* the key the route has resolved, from the header, else from the settings
KeyOfRequest ==
    IF KeyTruthy(prev.x_notion_token) THEN prev.x_notion_token
    ELSE IF prev.settings = NoneDict THEN prev.x_notion_token
    ELSE prev.settings.notion_api_key
DatabaseIdOfRequest ==
    IF Truthy(prev.x_notion_database_id) THEN prev.x_notion_database_id
    ELSE IF prev.settings = NoneDict THEN prev.x_notion_database_id
    ELSE prev.settings.notion_database_id

(***************************************************************************)
(* C21  What the test-connection route logs never holds the complete API   *)
(* key: each line it logs holds the preview of the key (its first 8 and    *)
(* last 4 characters when it has more than 12, else "***"), and the        *)
(* characters of the key do not occur in it as one run.                    *)
(***************************************************************************)
C21_KeyNeverLoggedInFull ==
    (prev.op = "test_notion_connection" /\ KeyTruthy(KeyOfRequest)) =>
        \A i \in 1..Len(prev.log) :
            /\ Contains(prev.log[i], KeyPreview(KeyOfRequest.value))
            /\ ~Contains(prev.log[i], KeyOfRequest.value)

(***************************************************************************)
(* C27  get_notion_tasks always ends in a response: 400 before any service *)
(* is built or any request sent when the API key or the database id is     *)
(* missing after header-then-settings resolution; 400 for a ValueError of  *)
(* the service; 500 with the error text for a RuntimeError; 500 with a     *)
(* generic message for any other exception; else 200 with the tasks and    *)
(* total equal to their number.                                            *)
(***************************************************************************)
C27_TasksRouteMapsEveryOutcome ==
    (prev.op = "get_notion_tasks") =>
        /\ (pc = "done") => ENABLED TasksReturn
        /\ (pc = "responded") =>
            LET r == prev.response
            IN /\ r.kind = "response"
               /\ IF ~KeyTruthy(KeyOfRequest)
                  THEN /\ r = JSONResponse(400, [error |-> "Notion API key not configured"])
                       /\ service = NoService /\ requests = <<>>
                  ELSE IF ~Truthy(DatabaseIdOfRequest)
                  THEN /\ r = JSONResponse(400,
                                  [error |-> "Notion database ID not configured"])
                       /\ service = NoService /\ requests = <<>>
                  ELSE /\ service.api_key = KeyOfRequest.value
                       /\ service.database_id = DatabaseIdOfRequest
                       /\ outcome.kind \in {"return", "raise"}
                       /\ (outcome.kind = "raise" /\ outcome.exc.type = "ValueError") =>
                            r.status_code = 400
                       /\ (outcome.kind = "raise" /\ outcome.exc.type = "RuntimeError") =>
                            /\ r.status_code = 500
                            /\ r.content.error.msg = outcome.exc.msg
                       /\ (outcome.kind = "raise"
                           /\ outcome.exc.type \notin {"ValueError", "RuntimeError"}) =>
                            r = JSONResponse(500, [error |-> "An unexpected error occurred"])
                       /\ (outcome.kind = "return") =>
                            /\ r.status_code = 200
                            /\ r.content.total = Len(r.content.tasks)
                            /\ Len(r.content.tasks) = Len(outcome.value)
                            /\ \A i \in 1..Len(outcome.value) :
                                r.content.tasks[i].page_id = outcome.value[i].page_id

\* a request whose key and database id come from the settings, and whose
\* query failed without a response
C27_Witness ==
    /\ prev.op = "get_notion_tasks" /\ pc = "responded"
    /\ ~KeyTruthy(prev.x_notion_token) /\ ~Truthy(prev.x_notion_database_id)
    /\ service # NoService
    /\ service.database_id = "db-settings"
    /\ Len(requests) = 2
    /\ outcome = Propagated
    /\ prev.response = JSONResponse(500, [error |-> "An unexpected error occurred"])

====
